---- MODULE Spec2Model ----
(***************************************************************************)
(* Batch transcription pipeline of run-transcription-in-server.py (the     *)
(* command-line entry point, "cli") and youtube_whisper_transcript.py (the *)
(* Streamlit entry point, "ui"): configuration, identifier file, metadata  *)
(* fetch in chunks, and the per-identifier download -> transcribe loop     *)
(* with its failure list.  The output directory (the disk) outlives a run, *)
(* so that a re-run of the batch meets the artifacts of the run before.    *)
(***************************************************************************)
EXTENDS Integers, Sequences, FiniteSets, TLC

(* ------------------------------ bounds --------------------------------- *)
NumIds == 2              \* distinct video identifiers 1..NumIds
MaxLines == 3            \* lines of the identifier file
MaxRuns == 2             \* runs of the batch over the same output directory
MaxMetaLen == 120        \* identifiers handed to get_video_info in SpecMeta
MaxMalformedPos == 2     \* positions of a response at which an item may be malformed
MaxSegments == 2         \* segments the inference engine returns for one audio file

(* ------------------------- program constants --------------------------- *)
ChunkSize == 50

Ids == 1..NumIds
Blank == 0               \* a line that is empty after strip()
None == <<"None", 0>>
NoFile == "NoFile"         \* audio[id] when {id}.mp3 does not exist
NoText == [exists |-> FALSE, lines |-> <<>>]
Text(lines) == [exists |-> TRUE, lines |-> lines]

Min(a, b) == IF a < b THEN a ELSE b

RECURSIVE SeqsUpTo(_, _)
SeqsUpTo(S, n) ==
    IF n = 0 THEN {<<>>}
    ELSE LET shorter == SeqsUpTo(S, n - 1)
         IN  shorter \cup {Append(s, x) : s \in {t \in shorter : Len(t) = n - 1}, x \in S}

Range(s) == {s[i] : i \in 1..Len(s)}

(* ------------------------- language settings --------------------------- *)
languages ==
    <<"Auto-detect language", "Kannada", "Hindi", "Tamil", "Marathi",
      "Gujarati", "Punjabi", "Bengali">>

ui_languages ==
    <<"Kannada", "Hindi", "Tamil", "Marathi", "Gujarati", "Punjabi", "Bengali">>

language_map ==
    [l \in {"Kannada", "Hindi", "Tamil", "Marathi", "Gujarati", "Punjabi", "Bengali"} |->
        CASE l = "Kannada"  -> "kn"
          [] l = "Hindi"    -> "hi"
          [] l = "Tamil"    -> "ta"
          [] l = "Marathi"  -> "mr"
          [] l = "Gujarati" -> "gu"
          [] l = "Punjabi"  -> "pa"
          [] l = "Bengali"  -> "bn"]

\* get_language_code with two rows of the map lost
get_language_code_missing_rows(selected_language) ==
    IF selected_language \in {"Kannada", "Hindi", "Tamil", "Marathi", "Gujarati"}
    THEN language_map[selected_language]
    ELSE "None"

get_language_code(selected_language) ==
    IF selected_language \in DOMAIN language_map
    THEN language_map[selected_language]
    ELSE "None"

\* int(choice): the value of a decimal numeral, a ValueError for anything else
IntError == 0 - 1000
int(s) ==
    CASE s = "0" -> 0 [] s = "1" -> 1 [] s = "2" -> 2 [] s = "3" -> 3
      [] s = "4" -> 4 [] s = "5" -> 5 [] s = "6" -> 6 [] s = "7" -> 7
      [] s = "8" -> 8 [] s = "9" -> 9 [] s = "-1" -> 0 - 1
      [] OTHER -> IntError

\* the interactive language prompt of main(), lines 174-191
prompt_language(choice) ==
    IF choice = "" THEN "Hindi"
    ELSE LET idx == int(choice)
         IN  IF idx = IntError THEN "Hindi"
             ELSE IF 1 <= idx /\ idx <= Len(languages) THEN languages[idx] ELSE "Hindi"

\* language as main() resolves it from --language and the prompt
cli_language(arg_language, choice) ==
    IF arg_language = "None" THEN prompt_language(choice) ELSE arg_language


(* ------------------------------- state --------------------------------- *)
VARIABLES
    inp,                  \* what the operator supplies: entry point, options, widgets
    file_lines,           \* the identifier file, one element per line (Blank or an id)
    dir_exists,           \* the output directory exists
    audio,                \* audio[id]: content of {id}.mp3, or NoFile
    transcript,           \* transcript[id]: {id}_transcription.txt, NoText or Text(lines)
    run,                  \* number of the current run of the batch
    pc,                   \* position in the entry point's script
    exit_status,          \* "running", "0", "1" (sys.exit(1)), "stopped" (st.stop()), "traceback"
    video_ids,
    auto_detect_language,
    language_code,
    video_info_list,
    chunk_start,          \* i of the loop of get_video_info
    failed_videos,
    idx,                  \* idx of enumerate(video_ids, start=1)
    audio_file,
    transcript_file,
    all_video_dfs,        \* ui only: video_id -> transcript path
    printed,              \* the final reports shown to the operator, in order
    requests,             \* history: the chunks sent to the metadata service
    chunk_log,            \* history: per chunk, did it raise and what did it append
    attempted,            \* history: identifiers the loop started on, in order
    step_results,         \* history: per attempt "done", "acq_failed", "tr_failed"
    downloads,            \* history: ydl.download calls of this run, per id
    inferences,           \* history: model.transcribe calls of this run, per id
    acq_steps,            \* history: what the last download_youtube_audio call did
    tr_steps,             \* history: what the last transcribe call did
    tr_calls,             \* history: arguments of the transcribe calls of this run
    prev,                 \* history: how the run before ended
    removed               \* history: audio files the operator deleted since then

inputs == <<inp, file_lines>>
disk == <<dir_exists, audio, transcript>>
meta == <<video_info_list, chunk_start, requests, chunk_log>>
loop == <<failed_videos, idx, audio_file, transcript_file, all_video_dfs, attempted, step_results,
          downloads, inferences, acq_steps, tr_steps, tr_calls>>
vars == <<inp, file_lines, dir_exists, audio, transcript, run, pc, exit_status,
          video_ids, auto_detect_language, language_code, video_info_list,
          chunk_start, failed_videos, idx, audio_file, transcript_file,
          all_video_dfs, printed,
          requests, chunk_log, attempted, step_results, downloads, inferences,
          acq_steps, tr_steps, tr_calls, prev, removed>>

(* ------------------------------ inputs --------------------------------- *)
CliInputs(arg_languages, choices) ==
    {i \in [entry : {"cli"}, arg_language : arg_languages, choice : choices,
            checkbox : {FALSE}, selected : {"Kannada"},
            file_txt : BOOLEAN, file_exists : BOOLEAN, api_key : BOOLEAN] :
        i.arg_language # "None" => i.choice = ""}

UiInputs(checkboxes, selections, txts) ==
    {i \in [entry : {"ui"}, arg_language : {"None"}, choice : {""},
            checkbox : checkboxes, selected : selections,
            file_txt : txts, file_exists : BOOLEAN, api_key : BOOLEAN] :
        i.checkbox => i.selected = "Kannada"}

Choices == {"", "0", "1", "2", "3", "4", "5", "6", "7", "8", "9", "-1", "abc"}

AllInputs ==
    CliInputs(Range(languages) \cup {"None"}, Choices)
        \cup UiInputs(BOOLEAN, Range(ui_languages), BOOLEAN)

FewInputs ==
    CliInputs({"None"}, {""}) \cup UiInputs({TRUE}, {"Kannada"}, {TRUE})

\* files of up to MaxLines lines; a blank line, if any, is the first one
FileLines ==
    {l \in SeqsUpTo(Ids \cup {Blank}, MaxLines) : \A i \in 2..Len(l) : l[i] # Blank}

\* read_video_ids_from_file: the non-blank lines, in order
read_video_ids_from_file(lines) == SelectSeq(lines, LAMBDA l : l # Blank)

NoPrev == [run |-> 0, done |-> {}, tr_failed |-> {}, had_text |-> {}]

(* -------------------------- initial states ----------------------------- *)
InitWith(input_set, lines_set, ids_set, start_pc) ==
    /\ inp \in input_set
    /\ file_lines \in lines_set
    /\ dir_exists = FALSE
    /\ audio = [v \in Ids |-> NoFile]
    /\ transcript = [v \in Ids |-> NoText]
    /\ run = 1
    /\ pc = start_pc
    /\ exit_status = "running"
    /\ video_ids \in ids_set
    /\ auto_detect_language = FALSE
    /\ language_code = "None"
    /\ video_info_list = <<>>
    /\ chunk_start = 0
    /\ failed_videos = <<>>
    /\ idx = 1
    /\ audio_file = None
    /\ transcript_file = None
    /\ all_video_dfs = <<>>
    /\ printed = <<>>
    /\ requests = <<>>
    /\ chunk_log = <<>>
    /\ attempted = <<>>
    /\ step_results = <<>>
    /\ downloads = [v \in Ids |-> 0]
    /\ inferences = [v \in Ids |-> 0]
    /\ acq_steps = <<>>
    /\ tr_steps = <<>>
    /\ tr_calls = <<>>
    /\ prev = NoPrev
    /\ removed = {}

\* a fresh process (cli) or a fresh script run (ui) over an empty output directory
Init == InitWith(FewInputs, FileLines, {<<>>}, "start")

(* ----------------------- configuration, pre-flight --------------------- *)
\* main() lines 170-199 and the widgets of the ui, lines 211-227
resolve_language(i) ==
    IF i.entry = "cli"
    THEN LET language == cli_language(i.arg_language, i.choice)
         IN  IF language = "Auto-detect language"
             THEN [auto |-> TRUE, code |-> "None"]
             ELSE [auto |-> FALSE, code |-> get_language_code(language)]
    ELSE IF i.checkbox
         THEN [auto |-> TRUE, code |-> "None"]
         ELSE [auto |-> FALSE, code |-> get_language_code(i.selected)]

\* pre-flight checks that forget the credential
preflight_ok_no_key(i) ==
    IF i.entry = "cli"
    THEN i.file_txt /\ i.file_exists
    ELSE i.file_exists

\* sys.exit(1) of the cli, st.stop() of the ui
stop_status(entry) == IF entry = "cli" THEN "1" ELSE "stopped"

\* the checks that end the run before any work
preflight_ok(i) ==
    IF i.entry = "cli"
    THEN i.file_txt /\ i.file_exists /\ i.api_key
    ELSE i.file_exists /\ i.api_key

\* everything from the start of the script to the call of get_video_info
Setup ==
    /\ pc = "start"
    /\ LET lang == resolve_language(inp)
           ids == read_video_ids_from_file(file_lines)
       IN  IF ~preflight_ok(inp)
           THEN /\ pc' = "exit"
                /\ exit_status' = stop_status(inp.entry)
                /\ auto_detect_language' =
                       IF inp.entry = "ui" THEN lang.auto ELSE auto_detect_language
                /\ language_code' =
                       IF inp.entry = "ui" THEN lang.code ELSE language_code
                /\ UNCHANGED video_ids
           ELSE /\ auto_detect_language' = lang.auto
                /\ language_code' = lang.code
                /\ video_ids' = ids
                /\ IF ids = <<>>
                   THEN pc' = "exit" /\ exit_status' = stop_status(inp.entry)
                   ELSE pc' = "build" /\ UNCHANGED exit_status
    /\ UNCHANGED <<inputs, disk, run, meta, loop, printed, prev, removed>>

(* ------------------------- get_video_info ------------------------------ *)
\* youtube = build(...): outside every try block
Build ==
    /\ pc = "build"
    /\ \E ok \in BOOLEAN :
          IF ok
          THEN pc' = "chunks" /\ UNCHANGED exit_status
          ELSE pc' = "crashed" /\ exit_status' = "traceback"
    /\ video_info_list' = <<>>
    /\ chunk_start' = 0
    /\ UNCHANGED <<inputs, disk, run, video_ids, auto_detect_language, language_code,
                   loop, printed, requests, chunk_log, prev, removed>>

\* chunk = video_ids[i:i+51]
chunk_of_one_more(ids, i) == SubSeq(ids, i + 1, Min(i + ChunkSize + 1, Len(ids)))

\* chunk = video_ids[i:i+50]
chunk_of(ids, i) == SubSeq(ids, i + 1, Min(i + ChunkSize, Len(ids)))

\* the next i of range(0, len(video_ids), 50)
next_chunk_start(i) == i + ChunkSize

\* what the service can answer to one request: the request raises, or it returns
\* items for the identifiers it knows, of which the one at position bad (if any)
\* lacks a field the loop reads
Responses(chunk) ==
    {[raises |-> TRUE, items |-> <<>>, bad |-> 0]}
        \cup {[raises |-> FALSE, items |-> its, bad |-> b] :
                 its \in {chunk, SubSeq(chunk, 2, Len(chunk))},
                 b \in 0..Min(MaxMalformedPos, Len(chunk))}

ValidResponse(chunk, r) == r \in Responses(chunk) /\ r.bad <= Len(r.items)

\* the body of the try block, lines 58-70: entries are appended one by one, and an
\* exception leaves the loop over the items
append_items(list, r) ==
    IF r.raises THEN list
    ELSE IF r.bad > 0 THEN list \o SubSeq(r.items, 1, r.bad - 1)
    ELSE list \o r.items

chunk_raised(r) == r.raises \/ r.bad > 0

FetchChunk ==
    /\ pc = "chunks"
    /\ chunk_start < Len(video_ids)
    /\ LET chunk == chunk_of(video_ids, chunk_start)
       IN  \E r \in Responses(chunk) :
              /\ ValidResponse(chunk, r)
              /\ requests' = Append(requests, chunk)
              /\ video_info_list' = append_items(video_info_list, r)
              /\ chunk_log' = Append(chunk_log,
                     [raised |-> chunk_raised(r), items |-> r.items,
                      from |-> Len(video_info_list)])
    /\ chunk_start' = next_chunk_start(chunk_start)
    /\ UNCHANGED <<inputs, disk, run, pc, exit_status, video_ids, auto_detect_language,
                   language_code, loop, printed, prev, removed>>

\* return video_info_list
MetaReturn ==
    /\ pc = "chunks"
    /\ chunk_start >= Len(video_ids)
    /\ pc' = "after_meta"
    /\ UNCHANGED <<inputs, disk, run, exit_status, video_ids, auto_detect_language,
                   language_code, meta, loop, printed, prev, removed>>

\* failed_videos = [] and the first turn of the for loop.  video_info_list is not
\* read after line 209 (cli) or line 280 (ui): the model drops its value here, and
\* the history of get_video_info with it
StartLoop ==
    /\ pc = "after_meta"
    /\ failed_videos' = <<>>
    /\ idx' = 1
    /\ pc' = "acquire"
    /\ video_info_list' = <<>>
    /\ requests' = <<>>
    /\ chunk_log' = <<>>
    /\ UNCHANGED <<inputs, disk, run, exit_status, video_ids, auto_detect_language,
                   language_code, chunk_start, audio_file, transcript_file, all_video_dfs,
                   attempted,
                   step_results, downloads, inferences, acq_steps, tr_steps, tr_calls,
                   printed, prev, removed>>

(* ----------------------- download_youtube_audio ------------------------ *)
audio_file_path(video_id) == <<"mp3", video_id>>
transcript_file_path(video_id) == <<"txt", video_id>>

\* what the world does to one call: can the directory be created, and how does
\* ydl.download end ("interrupted": it raises and leaves a truncated file behind)
DownloadEnv == [makedirs_ok : BOOLEAN, ydl : {"ok", "error", "interrupted"}]

\* download_youtube_audio that fetches again whatever is on disk
download_youtube_audio_refetch(video_id, d, a, env) ==
    [ret |-> IF env.ydl = "ok" THEN audio_file_path(video_id) ELSE None,
     dir_exists |-> TRUE,
     audio |-> CASE env.ydl = "ok" -> [a EXCEPT ![video_id] = "full"]
                 [] env.ydl = "interrupted" -> [a EXCEPT ![video_id] = "truncated"]
                 [] OTHER -> a,
     steps |-> <<"makedirs", "download">>, ydl_calls |-> 1]

\* download_youtube_audio without the existence check
download_youtube_audio_always(video_id, d, a, env) ==
    IF ~d /\ ~env.makedirs_ok
    THEN [ret |-> None, dir_exists |-> d, audio |-> a,
          steps |-> <<"makedirs">>, ydl_calls |-> 0]
    ELSE [ret |-> IF env.ydl = "ok" THEN audio_file_path(video_id) ELSE None,
          dir_exists |-> TRUE,
          audio |-> CASE env.ydl = "ok" -> [a EXCEPT ![video_id] = "full"]
                      [] env.ydl = "interrupted" -> [a EXCEPT ![video_id] = "truncated"]
                      [] OTHER -> a,
          steps |-> <<"makedirs", "exists", "download">>, ydl_calls |-> 1]

\* download_youtube_audio whose except branch returns the path all the same
download_youtube_audio_path_on_error(video_id, d, a, env) ==
    IF ~d /\ ~env.makedirs_ok
    THEN [ret |-> audio_file_path(video_id), dir_exists |-> d, audio |-> a,
          steps |-> <<"makedirs", "except">>, ydl_calls |-> 0]
    ELSE IF a[video_id] # NoFile
    THEN [ret |-> audio_file_path(video_id), dir_exists |-> TRUE, audio |-> a,
          steps |-> <<"makedirs", "exists">>, ydl_calls |-> 0]
    ELSE [ret |-> audio_file_path(video_id),
          dir_exists |-> TRUE,
          audio |-> CASE env.ydl = "ok" -> [a EXCEPT ![video_id] = "full"]
                      [] env.ydl = "interrupted" -> [a EXCEPT ![video_id] = "truncated"]
                      [] OTHER -> a,
          steps |-> IF env.ydl = "ok"
                    THEN <<"makedirs", "exists", "download">>
                    ELSE <<"makedirs", "exists", "download", "except">>,
          ydl_calls |-> 1]

\* the steps a call takes; "except" is the last one when an exception was caught
download_youtube_audio(video_id, d, a, env) ==
    IF ~d /\ ~env.makedirs_ok
    THEN [ret |-> None, dir_exists |-> d, audio |-> a,
          steps |-> <<"makedirs", "except">>, ydl_calls |-> 0]
    ELSE IF a[video_id] # NoFile
    THEN [ret |-> audio_file_path(video_id), dir_exists |-> TRUE, audio |-> a,
          steps |-> <<"makedirs", "exists">>, ydl_calls |-> 0]
    ELSE [ret |-> IF env.ydl = "ok" THEN audio_file_path(video_id) ELSE None,
          dir_exists |-> TRUE,
          audio |-> CASE env.ydl = "ok" -> [a EXCEPT ![video_id] = "full"]
                      [] env.ydl = "interrupted" -> [a EXCEPT ![video_id] = "truncated"]
                      [] OTHER -> a,
          steps |-> IF env.ydl = "ok"
                    THEN <<"makedirs", "exists", "download">>
                    ELSE <<"makedirs", "exists", "download", "except">>,
          ydl_calls |-> 1]

(* ------------------ transcribe_audio_and_save_to_txt ------------------- *)
\* result["segments"] of the inference engine for the audio of video_id
Segments(video_id) ==
    [k \in 1..MaxSegments |-> [start |-> 2 * (k - 1), text |-> 10 * video_id + k]]

\* a write loop that puts the latest segment first
Lines_latest_first(segs, n) == [k \in 1..n |-> segs[n + 1 - k].text]

\* the lines the write loop produces from the first n segments
Lines(segs, n) == [k \in 1..n |-> segs[k].text]

\* what the world does to one call: is CUDA there, and which step raises
\* ("write", at: the loop over the segments raises before writing segment at)
TranscribeEnv ==
    {e \in [cuda : BOOLEAN, fail : {"none", "device", "load", "infer", "write"},
            at : 1..MaxSegments] :
        /\ e.fail # "write" => e.at = 1
        /\ e.fail = "device" => e.cuda}

\* the function after its existence check: device, model, inference, write
transcribe_body(a_file, video_id, code, auto, t, env) ==
    LET segs == Segments(video_id)
        path == transcript_file_path(video_id)
    IN  CASE env.fail = "device" ->
               [ret |-> None, transcript |-> t, steps |-> <<"exists", "device", "except">>,
                engine_calls |-> 0]
          [] env.fail = "load" ->
               [ret |-> None, transcript |-> t,
                steps |-> <<"exists", "device", "load", "except">>,
                engine_calls |-> 0]
          [] env.fail = "infer" ->
               [ret |-> None, transcript |-> t,
                steps |-> <<"exists", "device", "load", "infer", "except">>,
                engine_calls |-> 1]
          [] env.fail = "write" ->
               [ret |-> None,
                transcript |-> [t EXCEPT ![video_id] = Text(Lines(segs, env.at - 1))],
                steps |-> <<"exists", "device", "load", "infer", "write", "except">>,
                engine_calls |-> 1]
          [] OTHER ->
               [ret |-> path,
                transcript |-> [t EXCEPT ![video_id] = Text(Lines(segs, Len(segs)))],
                steps |-> <<"exists", "device", "load", "infer", "write">>,
                engine_calls |-> 1]

\* transcribe_audio_and_save_to_txt whose skip returns nothing ("failed or was skipped")
transcribe_skip_returns_none(a_file, video_id, code, auto, t, env) ==
    IF t[video_id].exists
    THEN [ret |-> None, transcript |-> t, steps |-> <<"exists">>, engine_calls |-> 0]
    ELSE transcribe_body(a_file, video_id, code, auto, t, env)

\* transcribe_audio_and_save_to_txt without the existence check
transcribe_no_skip(a_file, video_id, code, auto, t, env) ==
    transcribe_body(a_file, video_id, code, auto, t, env)

transcribe_audio_and_save_to_txt(a_file, video_id, code, auto, t, env) ==
    IF t[video_id].exists
    THEN [ret |-> transcript_file_path(video_id), transcript |-> t,
          steps |-> <<"exists">>, engine_calls |-> 0]
    ELSE transcribe_body(a_file, video_id, code, auto, t, env)

(* --------------------------- the batch loop ---------------------------- *)
\* except Exception: failed_videos.append(video_id)
record_failure(failed, video_id) == Append(failed, video_id)

\* variant: the loop ends at the first failure
after_item_abort(i, n, failure) ==
    IF i < n /\ ~failure THEN "acquire" ELSE "summary"

\* where the for loop goes once the item at position i of n is finished
after_item(i, n, failure) == IF i < n THEN "acquire" ELSE "summary"

\* all_video_dfs[video_id] = transcript_file (ui), nothing (cli)
retain(entry, dfs, video_id, path) ==
    IF entry = "ui"
    THEN [v \in DOMAIN dfs \cup {video_id} |-> IF v = video_id THEN path ELSE dfs[v]]
    ELSE dfs

\* a loop that goes on to transcribe whatever the download returned
download_failed_unchecked(ret) == FALSE

\* if not audio_file: raise
download_failed(ret) == ret = None

\* Step 1 of the loop body: download_youtube_audio and `if not audio_file: raise`
Acquire ==
    /\ pc = "acquire"
    /\ \E env \in DownloadEnv :
          LET video_id == video_ids[idx]
              r == download_youtube_audio(video_id, dir_exists, audio, env)
          IN  /\ dir_exists' = r.dir_exists
              /\ audio' = r.audio
              /\ audio_file' = r.ret
              /\ acq_steps' = r.steps
              /\ downloads' = [downloads EXCEPT ![video_id] = @ + r.ydl_calls]
              /\ attempted' = Append(attempted, video_id)
              /\ IF download_failed(r.ret)
                 THEN /\ failed_videos' = record_failure(failed_videos, video_id)
                      /\ step_results' = Append(step_results, "acq_failed")
                      /\ idx' = idx + 1
                      /\ pc' = after_item(idx, Len(video_ids), TRUE)
                 ELSE /\ pc' = "transcribe"
                      /\ UNCHANGED <<failed_videos, step_results, idx>>
    /\ UNCHANGED <<inputs, transcript, run, exit_status, video_ids, auto_detect_language,
                   language_code, meta, transcript_file, all_video_dfs, inferences, tr_steps,
                   tr_calls,
                   printed, prev, removed>>

\* Step 2 of the loop body: transcribe_audio_and_save_to_txt, `if transcript_file is
\* None: raise`, and Step 3
Transcribe ==
    /\ pc = "transcribe"
    /\ \E env \in TranscribeEnv :
          LET video_id == video_ids[idx]
              r == transcribe_audio_and_save_to_txt(audio_file, video_id, language_code,
                       auto_detect_language, transcript, env)
          IN  /\ transcript' = r.transcript
              /\ transcript_file' = r.ret
              /\ tr_steps' = r.steps
              /\ tr_calls' = Append(tr_calls,
                     [auto |-> auto_detect_language, code |-> language_code,
                      video_id |-> video_id, audio_file |-> audio_file])
              /\ inferences' = [inferences EXCEPT ![video_id] = @ + r.engine_calls]
              /\ IF r.ret = None
                 THEN /\ failed_videos' = record_failure(failed_videos, video_id)
                      /\ step_results' = Append(step_results, "tr_failed")
                      /\ UNCHANGED all_video_dfs
                 ELSE /\ all_video_dfs' = retain(inp.entry, all_video_dfs, video_id, r.ret)
                      /\ step_results' = Append(step_results, "done")
                      /\ UNCHANGED failed_videos
              /\ pc' = after_item(idx, Len(video_ids), r.ret = None)
    /\ idx' = idx + 1
    /\ UNCHANGED <<inputs, dir_exists, audio, run, exit_status, video_ids,
                   auto_detect_language, language_code, meta, audio_file, attempted,
                   downloads, acq_steps, printed, prev, removed>>

\* what the entry point shows once the loop is over: line 226 of the cli,
\* lines 315-316 of the ui
final_report(entry, ids, failed) ==
    IF entry = "cli"
    THEN [text |-> "Processing complete!", failed |-> failed]
    ELSE [text |-> "Processing complete!"]

Summary ==
    /\ pc = "summary"
    /\ printed' = Append(printed, final_report(inp.entry, video_ids, failed_videos))
    /\ pc' = "done"
    /\ exit_status' = "0"
    /\ UNCHANGED <<inputs, disk, run, video_ids, auto_detect_language, language_code,
                   meta, loop, prev, removed>>

(* ------------------------------ re-runs -------------------------------- *)
\* identifiers that reached Done in the current run
DoneSet == {attempted[i] : i \in {j \in 1..Len(attempted) :
                                    j <= Len(step_results) /\ step_results[j] = "done"}}

\* identifiers whose transcription failed in the current run
TrFailedSet == {attempted[i] : i \in {j \in 1..Len(attempted) :
                                    j <= Len(step_results) /\ step_results[j] = "tr_failed"}}

\* the operator starts the batch again on the same file and output directory
Rerun ==
    /\ pc = "done"
    /\ run < MaxRuns
    /\ run' = run + 1
    /\ prev' = [run |-> run, done |-> DoneSet, tr_failed |-> TrFailedSet,
                had_text |-> {v \in Ids : transcript[v].exists}]
    /\ removed' = {}
    /\ pc' = "start"
    /\ exit_status' = "running"
    /\ video_ids' = <<>>
    /\ auto_detect_language' = FALSE
    /\ language_code' = "None"
    /\ video_info_list' = <<>>
    /\ chunk_start' = 0
    /\ failed_videos' = <<>>
    /\ idx' = 1
    /\ audio_file' = None
    /\ transcript_file' = None
    /\ all_video_dfs' = <<>>
    /\ printed' = <<>>
    /\ requests' = <<>>
    /\ chunk_log' = <<>>
    /\ attempted' = <<>>
    /\ step_results' = <<>>
    /\ downloads' = [v \in Ids |-> 0]
    /\ inferences' = [v \in Ids |-> 0]
    /\ acq_steps' = <<>>
    /\ tr_steps' = <<>>
    /\ tr_calls' = <<>>
    /\ UNCHANGED <<inputs, disk>>

\* between two runs the operator deletes an audio file
RemoveAudio ==
    /\ pc = "start"
    /\ run > 1
    /\ removed = {}
    /\ \E v \in Ids :
          /\ audio[v] # NoFile
          /\ audio' = [audio EXCEPT ![v] = NoFile]
          /\ removed' = removed \cup {v}
    /\ UNCHANGED <<inputs, dir_exists, transcript, run, pc, exit_status, video_ids,
                   auto_detect_language, language_code, meta, loop, printed, prev>>

Next ==
    \/ Setup
    \/ Build
    \/ FetchChunk
    \/ MetaReturn
    \/ StartLoop
    \/ Acquire
    \/ Transcribe
    \/ Summary
    \/ Rerun
    \/ RemoveAudio

Spec == Init /\ [][Next]_vars

(* get_video_info alone, on lists long enough to need several requests *)
MetaIds == {[i \in 1..n |-> i] : n \in 0..MaxMetaLen}

InitMeta == InitWith({i \in FewInputs : preflight_ok(i)}, {<<>>}, MetaIds, "build")

NextMeta ==
    \/ Build
    \/ FetchChunk
    \/ MetaReturn

SpecMeta == InitMeta /\ [][NextMeta]_vars

(* every configuration the entry points accept, on a one-line file *)
InitLang == InitWith(AllInputs, {<<1>>}, {<<>>}, "start")

SpecLang == InitLang /\ [][Next]_vars

(* ============================== claims ================================= *)
RECURSIVE FailuresOf(_, _, _)
\* the identifiers of ids whose step result is a failure, positions n and below
FailuresOf(ids, results, n) ==
    IF n = 0 THEN <<>>
    ELSE IF results[n] # "done"
         THEN Append(FailuresOf(ids, results, n - 1), ids[n])
         ELSE FailuresOf(ids, results, n - 1)

Finished == Len(step_results)

\* C1: failure isolation.  At every point of the loop the identifiers attempted so
\* far are a prefix of the work list, in list order, and the failure list is exactly
\* the attempted identifiers whose download or transcription returned no path, in
\* the order of the failures; when the loop is over every identifier of the work
\* list has been attempted, whatever failed on the way.
C1_FailureIsolation ==
    pc \in {"acquire", "transcribe", "summary", "done"} =>
        /\ Len(attempted) <= Len(video_ids)
        /\ attempted = SubSeq(video_ids, 1, Len(attempted))
        /\ Finished <= Len(attempted)
        /\ failed_videos = FailuresOf(attempted, step_results, Finished)
        /\ pc \in {"summary", "done"} =>
               attempted = video_ids /\ Finished = Len(video_ids)

\* three identifiers, the download of the second fails, the first and third succeed
C1_Witness ==
    /\ pc = "done"
    /\ Len(video_ids) = 3
    /\ video_ids[1] # video_ids[2]
    /\ step_results = <<"done", "acq_failed", "done">>
    /\ failed_videos = <<video_ids[2]>>

\* C2: a call of download_youtube_audio that finds a file at {id}.mp3 (whatever its
\* content) returns that path, makes no ydl.download call and leaves the file as it is.
C2_AudioIdempotent ==
    [][(pc = "acquire" /\ audio[video_ids[idx]] # NoFile) =>
          /\ audio_file' = audio_file_path(video_ids[idx])
          /\ downloads' = downloads
          /\ audio' = audio
          /\ acq_steps' = <<"makedirs", "exists">>
          /\ pc' = "transcribe"]_vars

\* a truncated file was taken for the audio, without a download in this run
C2_Witness ==
    /\ pc = "transcribe"
    /\ audio[video_ids[idx]] = "truncated"
    /\ audio_file = audio_file_path(video_ids[idx])
    /\ acq_steps = <<"makedirs", "exists">>
    /\ downloads[video_ids[idx]] = 0

\* C3: a call of transcribe_audio_and_save_to_txt that finds a file at
\* {id}_transcription.txt returns that path and leaves the file as it is; the
\* existence check is the only step it takes: no device selection, no model load,
\* no inference.
C3_TranscriptIdempotent ==
    [][(pc = "transcribe" /\ transcript[video_ids[idx]].exists) =>
          /\ transcript_file' = transcript_file_path(video_ids[idx])
          /\ transcript' = transcript
          /\ inferences' = inferences
          /\ tr_steps' = <<"exists">>]_vars

\* a second run returned the transcript of the first without calling the engine
C3_Witness ==
    /\ run = 2
    /\ Len(attempted) > 0
    /\ Finished = Len(attempted)
    /\ tr_steps = <<"exists">>
    /\ transcript_file = transcript_file_path(attempted[Len(attempted)])
    /\ inferences[attempted[Len(attempted)]] = 0

\* C4 as stated: a second run on the same list and output directory changes no
\* artifact, performs no download and no inference, and ends with the Done set of
\* the first run.
C4_AsStated ==
    /\ [](run = 2 /\ removed = {} =>
             /\ \A v \in Ids : downloads[v] = 0 /\ inferences[v] = 0
             /\ pc = "done" => DoneSet = prev.done)
    /\ [][(run = 2 /\ run' = 2 /\ removed' = {}) =>
             audio' = audio /\ transcript' = transcript]_vars

\* C4 as amended: for the identifiers that were Done in the run before, a further run
\* on the same list and output directory (nothing deleted in between) changes neither
\* artifact, performs no download and no inference, never records a failure, and
\* ends with them Done again.
C4_BatchIdempotentForDone ==
    /\ [](run >= 2 /\ removed = {} =>
             \A v \in prev.done :
                 /\ downloads[v] = 0
                 /\ inferences[v] = 0
                 /\ v \notin Range(failed_videos)
                 /\ pc = "done" => v \in DoneSet)
    /\ [][(run >= 2 /\ run' = run /\ removed' = {}) =>
             \A v \in prev.done :
                 audio'[v] = audio[v] /\ transcript'[v] = transcript[v]]_vars

\* a second run is over: something was Done in the first run and is Done again,
\* something else had failed and was worked on again
C4_Witness ==
    /\ run = 2
    /\ pc = "done"
    /\ removed = {}
    /\ prev.done # {}
    /\ \E v \in Range(video_ids) \ prev.done : downloads[v] > 0

\* C5: no rollback.  The transcription step never touches an audio file, whether it
\* fails or not; and an identifier whose transcription failed in the run before, and
\* whose audio file the operator has not deleted, gets no ydl.download call in the
\* next run.
C5_NoRollback ==
    /\ [][pc = "transcribe" => audio' = audio]_vars
    /\ [](run >= 2 =>
             \A v \in prev.tr_failed \ removed :
                 audio[v] # NoFile /\ downloads[v] = 0)

\* the second run went through an identifier whose transcription had failed in the
\* first, and found its audio
C5_Witness ==
    /\ run = 2
    /\ pc = "done"
    /\ \E i \in 1..Len(attempted) :
          /\ attempted[i] \in prev.tr_failed \ removed
          /\ downloads[attempted[i]] = 0
          /\ step_results[i] = "done"

\* C6: on a re-run, every identifier of the list whose transcript was there when the
\* run started ends Done, is not in the failure list, and had no download and no
\* inference, whether or not its audio file is still there.
C6_RetryOnlyFailed ==
    (run >= 2 /\ pc = "done") =>
        \A v \in Range(video_ids) \cap prev.had_text :
            /\ v \in DoneSet
            /\ v \notin Range(failed_videos)
            /\ downloads[v] = 0
            /\ inferences[v] = 0

\* C7: when the loop is over, and not before, the entry point has shown exactly one
\* final report, holding the number of identifiers processed, the number Done and
\* the failure list.
C7_FinalSummary ==
    /\ pc \in {"start", "build", "chunks", "after_meta", "acquire", "transcribe",
               "summary"} => printed = <<>>
    /\ pc = "done" =>
          /\ Len(printed) = 1
          /\ {"processed", "done", "failed"} \subseteq DOMAIN printed[1]
          /\ printed[1].failed = failed_videos
          /\ printed[1].processed = Len(video_ids)
          /\ printed[1].done = Len(video_ids) - Len(failed_videos)

\* C8: every call of transcribe_audio_and_save_to_txt has exactly one language mode:
\* auto-detect with no language code, or a language code without auto-detect.
C8_ModeExclusive ==
    \A k \in 1..Len(tr_calls) :
        \/ tr_calls[k].auto /\ tr_calls[k].code = "None"
        \/ ~tr_calls[k].auto /\ tr_calls[k].code \notin {"None", ""}

\* an invalid answer to the prompt led to a call with the default language; so did
\* the last entry of the selectbox
C8_Witness ==
    /\ tr_calls # <<>>
    /\ \/ inp.entry = "cli" /\ inp.choice = "abc" /\ tr_calls[1].code = "hi"
       \/ inp.entry = "cli" /\ inp.arg_language = "Punjabi" /\ tr_calls[1].code = "pa"
       \/ inp.entry = "ui" /\ inp.selected = "Bengali" /\ tr_calls[1].code = "bn"

RECURSIVE Flatten(_, _)
\* the first n sequences of ss, concatenated
Flatten(ss, n) == IF n = 0 THEN <<>> ELSE Flatten(ss, n - 1) \o ss[n]

\* C9: the requests issued so far are consecutive slices of at most 50 identifiers,
\* in list order; when get_video_info returns there are exactly ceil(n/50) of them
\* and together they are the list.
C9_Batching ==
    pc \in {"chunks", "after_meta"} =>
        /\ \A k \in 1..Len(requests) :
              /\ Len(requests[k]) <= 50
              /\ requests[k] = SubSeq(video_ids, 50 * (k - 1) + 1,
                                      Min(50 * k, Len(video_ids)))
        /\ pc = "after_meta" =>
              /\ Len(requests) = (Len(video_ids) + 49) \div 50
              /\ Flatten(requests, Len(requests)) = video_ids

\* 120 identifiers went out as 50, 50, 20
C9_Witness ==
    /\ pc = "after_meta"
    /\ Len(video_ids) = 120
    /\ Len(requests) = 3
    /\ Len(requests[1]) = 50 /\ Len(requests[2]) = 50 /\ Len(requests[3]) = 20

RECURSIVE Contribution(_, _)
\* what the first n chunks should have put in the result: the items of the chunks
\* that did not raise
Contribution(log, n) ==
    IF n = 0 THEN <<>>
    ELSE Contribution(log, n - 1) \o (IF log[n].raised THEN <<>> ELSE log[n].items)

\* C10: the result of get_video_info holds every item of the chunks that did not
\* raise, and nothing of a chunk that raised.
C10_ChunkFailure ==
    pc \in {"chunks", "after_meta"} =>
        video_info_list = Contribution(chunk_log, Len(chunk_log))

\* C11: the metadata step is never fatal.  Whatever build(...) and the requests do,
\* the run does not end in get_video_info: it never stops with a traceback, the
\* metadata step adds nothing to the failure list, and the loop over the work list
\* starts.
C11_MetadataAdvisory ==
    /\ pc # "crashed"
    /\ exit_status # "traceback"
    /\ pc \in {"build", "chunks", "after_meta"} => failed_videos = <<>>

\* C12: after a transcription that wrote its file and returned its path, the file
\* has one line per segment of the engine's result, the k-th line being the text of
\* the k-th segment and nothing else.
C12_SegmentOrder ==
    (/\ Finished > 0
     /\ Finished = Len(attempted)
     /\ step_results[Finished] = "done"
     /\ tr_steps = <<"exists", "device", "load", "infer", "write">>) =>
        LET video_id == attempted[Finished]
            segs == Segments(video_id)
            file == transcript[video_id]
        IN  /\ file.exists
            /\ Len(file.lines) = Len(segs)
            /\ \A k \in 1..Len(segs) : file.lines[k] = segs[k].text
            /\ \A k \in 1..(Len(segs) - 1) : segs[k].start < segs[k + 1].start

\* a file of several lines was written from as many segments
C12_Witness ==
    /\ Finished > 0
    /\ Finished = Len(attempted)
    /\ step_results[Finished] = "done"
    /\ tr_steps = <<"exists", "device", "load", "infer", "write">>
    /\ Len(transcript[attempted[Finished]].lines) >= 2
    /\ transcript[attempted[Finished]].lines[1] # transcript[attempted[Finished]].lines[2]

NoWorkDone ==
    /\ ~dir_exists
    /\ \A v \in Ids : audio[v] = NoFile /\ ~transcript[v].exists
    /\ \A v \in Ids : downloads[v] = 0 /\ inferences[v] = 0
    /\ requests = <<>>
    /\ attempted = <<>>
    /\ tr_calls = <<>>

RECURSIVE PastAcquisition(_, _, _)
\* the identifiers among the first n attempts whose download returned a path
PastAcquisition(ids, results, n) ==
    IF n = 0 THEN <<>>
    ELSE IF results[n] # "acq_failed"
         THEN Append(PastAcquisition(ids, results, n - 1), ids[n])
         ELSE PastAcquisition(ids, results, n - 1)

\* C14: the items of the work list go through the steps one at a time and in
\* order.  The transcription calls made so far are, in order, exactly the finished
\* items whose download returned a path, each called with the path that download
\* returned; an item whose download returned nothing has no transcription call; and
\* a step of the next item starts only when every item before it is finished.
C14_StepOrder ==
    pc \in {"acquire", "transcribe", "summary", "done"} =>
        /\ Len(tr_calls) = Len(PastAcquisition(attempted, step_results, Finished))
        /\ \A k \in 1..Len(tr_calls) :
              /\ tr_calls[k].video_id =
                     PastAcquisition(attempted, step_results, Finished)[k]
              /\ tr_calls[k].audio_file = audio_file_path(tr_calls[k].video_id)
        /\ pc = "acquire" => idx = Finished + 1 /\ Len(attempted) = Finished
        /\ pc = "transcribe" =>
              /\ idx = Finished + 1 /\ Len(attempted) = idx
              /\ attempted[idx] = video_ids[idx]
              /\ audio_file = audio_file_path(video_ids[idx])
        /\ pc \in {"summary", "done"} => Len(attempted) = Finished

\* three items: the first transcribed, the second without a download and so without
\* a transcription call, the third transcribed
C14_Witness ==
    /\ pc = "done"
    /\ step_results = <<"done", "acq_failed", "tr_failed">>
    /\ Len(tr_calls) = 2
    /\ tr_calls[1].video_id = video_ids[1]
    /\ tr_calls[2].video_id = video_ids[3]

Last(seq) == seq[Len(seq)]

\* C15: a call of download_youtube_audio or of transcribe_audio_and_save_to_txt in
\* which an exception was raised (by makedirs or ydl.download; by device selection,
\* model load, inference or the write loop) returns no path; the loop records the
\* identifier as failed and goes on to the next item or to the final report, and
\* the run does not end there.
C15_ExceptionsBecomeFailures ==
    /\ [][(pc = "acquire" /\ Last(acq_steps') = "except") =>
             /\ audio_file' = None
             /\ failed_videos' = Append(failed_videos, video_ids[idx])
             /\ pc' \in {"acquire", "summary"}
             /\ exit_status' = "running"]_vars
    /\ [][(pc = "transcribe" /\ Last(tr_steps') = "except") =>
             /\ transcript_file' = None
             /\ failed_videos' = Append(failed_videos, video_ids[idx])
             /\ pc' \in {"acquire", "summary"}
             /\ exit_status' = "running"]_vars

\* a run in which the write loop raised for one item and the download for a later
\* one has reached its final report with both in the failure list
C15_Witness ==
    /\ pc = "done"
    /\ tr_steps = <<"exists", "device", "load", "infer", "write", "except">>
    /\ acq_steps = <<"makedirs", "exists", "download", "except">>
    /\ Len(failed_videos) >= 2
    /\ step_results[Finished] = "acq_failed"

\* C16: a transcription failure leaves no transcript behind.  When a run is over,
\* no file exists at {identifier}_transcription.txt for an identifier whose
\* transcription returned no path in that run and that no other item of the run
\* brought to Done.
C16_NoPartialTranscript ==
    pc = "done" => \A v \in TrFailedSet \ DoneSet : ~transcript[v].exists

\* the identifiers the run retains as Done: the keys of all_video_dfs in the
\* Streamlit loop; the command-line loop keeps no mapping, so there the items
\* whose transcription returned a path
RetainedDone == IF inp.entry = "ui" THEN DOMAIN all_video_dfs ELSE DoneSet

\* C17: Done and Failed partition the work list.  When a run is over every
\* identifier of the work list is retained as Done or is in the failure list,
\* and none is in both.
C17_DoneFailedPartition ==
    pc = "done" =>
        /\ Range(video_ids) \subseteq RetainedDone \cup Range(failed_videos)
        /\ RetainedDone \cap Range(failed_videos) = {}
====
